---- MODULE Spec2Model ----
(***************************************************************************)
(* A model of init2winit's kitchen-sink gradient transformations           *)
(* (optimizer_lib/kitchen_sink/_src/transform.py) and of the optimizer     *)
(* utilities (optimizer_lib/utils.py).                                     *)
(*                                                                         *)
(* Numbers.  Array elements and hyperparameters are exact rationals        *)
(* <<n, d>> in lowest terms with d > 0.  The decays and gradients the      *)
(* model draws are small dyadic rationals, so over the few steps a run     *)
(* takes every accumulator value is exactly representable in float32 and   *)
(* the float arithmetic of the code is exact on them.  An emitted value    *)
(* m / (rad**power + eps) is kept as that term (Quot), eps included.  Step *)
(* counters are int32: addition wraps, as jnp's int32 addition does.       *)
(*                                                                         *)
(* Trees.  The parameter tree is one leaf, a flat row-major array `data`   *)
(* with a `shape`; jax.tree_map over it is the element-wise map.           *)
(***************************************************************************)
EXTENDS Integers, Sequences, FiniteSets, TLC

VARIABLES
  tname,    \* Spec: the transform that was constructed
  hp,       \* Spec: its hyperparameters (the constructor's arguments)
  shape,    \* Spec: shape of the parameter leaf
  state,    \* Spec: the state the caller threads: init_fn's, then update_fn's
  out,      \* Spec: what the last call returned as updates (None: none yet)
  last,     \* Spec: the arguments of the last call, and what the one before returned
  raised,   \* Spec: the exception the last call raised ("none": it returned)
  start,    \* Spec: number of updates already applied in the initial state
  steps,    \* Spec: number of update_fn calls made since
  seen,     \* Spec: the updates those calls were given, in order
  call,     \* SpecFn: the pure function called and its arguments
  ret       \* SpecFn: what it returned (None: not called yet)

vars == <<tname, hp, shape, state, out, last, raised, start, steps, seen, call, ret>>

(* Python's None where an array or a result is expected.                   *)
None == <<>>

----------------------------------------------------------------------------
(* Bounds of the model.                                                    *)

MaxSteps == 3
MaxLength == 10
IncSpan == 40

----------------------------------------------------------------------------
(* Exact rational arithmetic.                                              *)

Abs(x) == IF x < 0 THEN -x ELSE x

RECURSIVE Gcd(_, _)
Gcd(a, b) == IF b = 0 THEN a ELSE Gcd(b, a % b)

Q(n, d) ==
  LET s == IF d < 0 THEN -1 ELSE 1
      g == Gcd(Abs(n), Abs(d))
  IN  <<(s * n) \div g, (s * d) \div g>>

R(n) == <<n, 1>>
Zero == R(0)
One == R(1)
Half == Q(1, 2)

RAdd(a, b) == Q(a[1] * b[2] + b[1] * a[2], a[2] * b[2])
RNeg(a) == <<-a[1], a[2]>>
RSub(a, b) == RAdd(a, RNeg(b))
RMul(a, b) == Q(a[1] * b[1], a[2] * b[2])
RDiv(a, b) == Q(a[1] * b[2], a[2] * b[1])
RLt(a, b) == a[1] * b[2] < b[1] * a[2]
RLe(a, b) == a[1] * b[2] <= b[1] * a[2]
RMax(a, b) == IF RLt(a, b) THEN b ELSE a
RSign(a) == IF a[1] > 0 THEN One ELSE IF a[1] < 0 THEN RNeg(One) ELSE Zero

RECURSIVE RPow(_, _)
RPow(a, k) == IF k = 0 THEN One ELSE RMul(a, RPow(a, k - 1))

(* jax.tree_map over the one leaf: element-wise over the flat data.        *)
Map1(F(_), a) == [i \in 1..Len(a) |-> F(a[i])]
Map2(F(_, _), a, b) == [i \in 1..Len(a) |-> F(a[i], b[i])]
Map3(F(_, _, _), a, b, c) == [i \in 1..Len(a) |-> F(a[i], b[i], c[i])]

RECURSIVE Prod(_)
Prod(s) == IF s = <<>> THEN 1 ELSE Head(s) * Prod(Tail(s))

RECURSIVE SeqSum(_)
SeqSum(s) == IF s = <<>> THEN 0 ELSE Head(s) + SeqSum(Tail(s))

zeros_like(shp) == [i \in 1..Prod(shp) |-> Zero]
full_like(shp, v) == [i \in 1..Prod(shp) |-> v]

----------------------------------------------------------------------------
(* int32 counters.                                                         *)

Int32Max == 2147483647
Int32Min == (-Int32Max) - 1

(* a + b in int32 for b >= 0: the sum modulo 2^32, in [Int32Min, Int32Max] *)
Int32Add(a, b) ==
  IF a > Int32Max - b
    THEN (a - Int32Max - 1) + (Int32Min + b)
    ELSE a + b

(* The increment without the guard: count + one.                           *)
WrappingIncrement(count) == Int32Add(count, 1)

(* jnp.where(count < max_int32_value, count + one, max_int32_value)        *)
_safe_int32_increment(count) ==
  IF count < Int32Max THEN Int32Add(count, 1) ELSE Int32Max

----------------------------------------------------------------------------
(* Numeric helpers.                                                        *)

(* A float that is not a number of the model: t / 0.                       *)
NonFinite == "nan_or_inf"

(* The emitted value m / (rad**power + eps), kept as the term the code     *)
(* evaluates: the root is not rational.                                    *)
Quot(m, rad, power, eps) == [num |-> m, rad |-> rad, power |-> power, eps |-> eps]

(* (1 - decay) * (g**order) + decay * t, per element                       *)
_update_moment(updates, moments, decay, order) ==
  Map2(LAMBDA g, t : RAdd(RMul(RSub(One, decay), RPow(g, order)), RMul(decay, t)),
       updates, moments)

(* decay**count as float32 computes it for 0 < decay < 1: exact for the    *)
(* small counts, 0 by underflow for a count near Int32Max, +inf by         *)
(* overflow for a count near Int32Min.                                     *)
PowIsInf(decay, count) == count < -1000
DecayPow(decay, count) ==
  IF count > 1000 THEN Zero
  ELSE IF count >= 0 THEN RPow(decay, count)
  ELSE RPow(RDiv(One, decay), -count)

(* t / (1 - decay**count), per element; t / -inf is (minus) zero, t / 0 is *)
(* not finite.                                                             *)
_bias_correction(moment, decay, count) ==
  IF PowIsInf(decay, count) THEN Map1(LAMBDA t : Zero, moment)
  ELSE LET beta == RSub(One, DecayPow(decay, count))
       IN  Map1(LAMBDA t : IF beta = Zero THEN NonFinite ELSE RDiv(t, beta), moment)

----------------------------------------------------------------------------
(* precondition_by_rms                                                     *)

precondition_by_rms_init_fn(h, params) ==
  [count |-> 0, nu |-> zeros_like(params.shape)]

precondition_by_rms_update_fn(h, updates, st) ==
  LET nu == _update_moment(updates, st.nu, h.decay, 2)
      count == Int32Add(st.count, 1)
      nu_hat == IF ~h.debias THEN nu ELSE _bias_correction(nu, h.decay, count)
  IN  [updates |-> Map2(LAMBDA u, v : Quot(u, RAdd(v, h.eps_root), h.power, h.eps),
                        updates, nu_hat),
       state |-> [count |-> count, nu |-> nu]]

(* precondition_by_yogi                                                    *)

precondition_by_yogi_init_fn(h, params) ==
  [count |-> 0, nu |-> full_like(params.shape, h.initial_accumulator_value)]

YogiWithoutSign(h, updates, st) ==
  LET nu == Map2(LAMBDA g, v : RSub(v, RMul(RSub(One, h.b2), RPow(g, 2))),
                 updates, st.nu)
      count == Int32Add(st.count, 1)
      nu_hat == IF ~h.debias THEN nu ELSE _bias_correction(nu, h.b2, count)
  IN  [updates |-> Map2(LAMBDA u, v : Quot(u, RAdd(v, h.eps_root), Half, h.eps),
                        updates, nu_hat),
       state |-> [count |-> count, nu |-> nu]]

precondition_by_yogi_update_fn(h, updates, st) ==
  LET nu == Map2(LAMBDA g, v :
                   RSub(v, RMul(RMul(RSub(One, h.b2), RSign(RSub(v, RPow(g, 2)))),
                                RPow(g, 2))),
                 updates, st.nu)
      count == Int32Add(st.count, 1)
      nu_hat == IF ~h.debias THEN nu ELSE _bias_correction(nu, h.b2, count)
  IN  [updates |-> Map2(LAMBDA u, v : Quot(u, RAdd(v, h.eps_root), Half, h.eps),
                        updates, nu_hat),
       state |-> [count |-> count, nu |-> nu]]

(* precondition_by_amsgrad                                                 *)

precondition_by_amsgrad_init_fn(h, params) ==
  [count |-> 0, nu |-> zeros_like(params.shape)]

(* nu_hat = jax.tree_map(jnp.maximum, nu, state.nu)                        *)
amsgrad_nu_hat(nu, state_nu) == Map2(RMax, nu, state_nu)

precondition_by_amsgrad_update_fn(h, updates, st) ==
  LET nu == _update_moment(updates, st.nu, h.b2, 2)
      count == Int32Add(st.count, 1)
      nu_hat == amsgrad_nu_hat(nu, st.nu)
  IN  [updates |-> Map2(LAMBDA m, v : Quot(m, RAdd(v, h.eps_root), Half, h.eps),
                        updates, nu_hat),
       state |-> [count |-> count, nu |-> nu]]

(* scale_by_amsgrad                                                        *)

scale_by_amsgrad_init_fn(h, params) ==
  [mu |-> zeros_like(params.shape), nu |-> zeros_like(params.shape)]

scale_by_amsgrad_update_fn(h, updates, st) ==
  LET mu == _update_moment(updates, st.mu, h.b1, 1)
      nu == _update_moment(updates, st.nu, h.b2, 2)
      nu_hat == amsgrad_nu_hat(nu, st.nu)
  IN  [updates |-> Map2(LAMBDA m, v : Quot(m, RAdd(v, h.eps_root), Half, h.eps),
                        mu, nu_hat),
       state |-> [mu |-> mu, nu |-> nu]]

(* bias_correction                                                         *)

bias_correction_init_fn(h, params) == [count |-> 0]

bias_correction_update_fn(h, updates, st) ==
  LET count_inc == _safe_int32_increment(st.count)
  IN  [updates |-> _bias_correction(updates, h.decay, count_inc),
       state |-> [count |-> count_inc]]

(* scale_by_adam                                                           *)

scale_by_adam_init_fn(h, params) ==
  [count |-> 0, mu |-> zeros_like(params.shape), nu |-> zeros_like(params.shape)]

AdamWithoutDebias(h, updates, st) ==
  LET mu == _update_moment(updates, st.mu, h.b1, 1)
      nu == _update_moment(updates, st.nu, h.b2, 2)
      count == Int32Add(st.count, 1)
  IN  [updates |-> Map2(LAMBDA m, v : Quot(m, RAdd(v, h.eps_root), h.power, h.eps),
                        mu, nu),
       state |-> [count |-> count, mu |-> mu, nu |-> nu]]

scale_by_adam_update_fn(h, updates, st) ==
  LET mu == _update_moment(updates, st.mu, h.b1, 1)
      nu == _update_moment(updates, st.nu, h.b2, 2)
      count == Int32Add(st.count, 1)
      mu_hat == IF ~h.debias THEN mu ELSE _bias_correction(mu, h.b1, count)
      nu_hat == IF ~h.debias THEN nu ELSE _bias_correction(nu, h.b2, count)
  IN  [updates |-> Map2(LAMBDA m, v : Quot(m, RAdd(v, h.eps_root), h.power, h.eps),
                        mu_hat, nu_hat),
       state |-> [count |-> count, mu |-> mu, nu |-> nu]]

(* scale_by_nadam                                                          *)

scale_by_nadam_init_fn(h, params) ==
  [count |-> 0, mu |-> zeros_like(params.shape), nu |-> zeros_like(params.shape)]

NadamKeepingLookahead(h, updates, st) ==
  LET mu == _update_moment(updates, st.mu, h.b1, 1)
      nu == _update_moment(updates, st.nu, h.b2, 2)
      count == Int32Add(st.count, 1)
      mu_hat0 == _update_moment(updates, mu, h.b1, 1)
      mu_hat == IF ~h.debias THEN mu_hat0 ELSE _bias_correction(mu_hat0, h.b1, count)
      nu_hat == IF ~h.debias THEN nu ELSE _bias_correction(nu, h.b2, count)
  IN  [updates |-> Map2(LAMBDA m, v : Quot(m, RAdd(v, h.eps_root), h.power, h.eps),
                        mu_hat, nu_hat),
       state |-> [count |-> count, mu |-> mu_hat0, nu |-> nu]]

scale_by_nadam_update_fn(h, updates, st) ==
  LET mu == _update_moment(updates, st.mu, h.b1, 1)
      nu == _update_moment(updates, st.nu, h.b2, 2)
      count == Int32Add(st.count, 1)
      mu_hat0 == _update_moment(updates, mu, h.b1, 1)
      mu_hat == IF ~h.debias THEN mu_hat0 ELSE _bias_correction(mu_hat0, h.b1, count)
      nu_hat == IF ~h.debias THEN nu ELSE _bias_correction(nu, h.b2, count)
  IN  [updates |-> Map2(LAMBDA m, v : Quot(m, RAdd(v, h.eps_root), h.power, h.eps),
                        mu_hat, nu_hat),
       state |-> [count |-> count, mu |-> mu, nu |-> nu]]

(* precondition_by_rss                                                     *)

RssZeroInit(h, params) == [sum_of_squares |-> zeros_like(params.shape)]

precondition_by_rss_init_fn(h, params) ==
  [sum_of_squares |-> full_like(params.shape, h.initial_accumulator_value)]

RssEpsOutside(h, updates, st) ==
  LET sum_of_squares == Map2(LAMBDA g, t : RAdd(RPow(g, 2), t), updates, st.sum_of_squares)
  IN  [updates |-> Map2(LAMBDA scale, g : Quot(g, scale, h.power, h.eps),
                        sum_of_squares, updates),
       state |-> [sum_of_squares |-> sum_of_squares]]

(* raise_power(scale + eps) is the term with radicand scale + eps and      *)
(* nothing added after the power.                                          *)
precondition_by_rss_update_fn(h, updates, st) ==
  LET sum_of_squares == Map2(LAMBDA g, t : RAdd(RPow(g, 2), t), updates, st.sum_of_squares)
  IN  [updates |-> Map2(LAMBDA scale, g : Quot(g, RAdd(scale, h.eps), h.power, Zero),
                        sum_of_squares, updates),
       state |-> [sum_of_squares |-> sum_of_squares]]

----------------------------------------------------------------------------
(* float32 values beyond the rationals, for the transforms that are about  *)
(* them: NaN and the two infinities are the pairs with denominator 0, and  *)
(* Big(q) is the finite float q * 2^100, whose square overflows to +inf    *)
(* and which stays of that size when divided by a divisor below 2^30.      *)

NaN == <<0, 0>>
PosInf == <<1, 0>>
NegInf == <<-1, 0>>
Big(q) == <<q[1], q[2], 100>>

IsBig(x) == Len(x) = 3
IsNaN(x) == x = NaN
IsInf(x) == x = PosInf \/ x = NegInf
IsFinite(x) == ~IsNaN(x) /\ ~IsInf(x)
IsRational(x) == Len(x) = 2 /\ x[2] # 0
SignOf(x) == IF x[1] > 0 THEN 1 ELSE IF x[1] < 0 THEN -1 ELSE 0
InfOfSign(sgn) == IF sgn > 0 THEN PosInf ELSE IF sgn < 0 THEN NegInf ELSE NaN

(* jnp.square                                                              *)
FSquare(x) ==
  IF IsNaN(x) THEN NaN
  ELSE IF IsInf(x) \/ IsBig(x) THEN PosInf
  ELSE RMul(x, x)

(* a + b for a, b not Big                                                  *)
FAdd(a, b) ==
  IF IsNaN(a) \/ IsNaN(b) THEN NaN
  ELSE IF IsInf(a) THEN (IF IsInf(b) /\ b # a THEN NaN ELSE a)
  ELSE IF IsInf(b) THEN b
  ELSE RAdd(a, b)

RECURSIVE FSum(_)
FSum(a) == IF a = <<>> THEN Zero ELSE FAdd(Head(a), FSum(Tail(a)))

(* a / b for b not Big                                                     *)
FDivide(a, b) ==
  IF IsNaN(a) \/ IsNaN(b) THEN NaN
  ELSE IF IsInf(b) THEN (IF IsInf(a) THEN NaN ELSE Zero)
  ELSE IF b = Zero THEN InfOfSign(SignOf(a))
  ELSE IF IsInf(a) THEN InfOfSign(SignOf(a) * SignOf(b))
  ELSE IF IsBig(a) THEN Big(RDiv(<<a[1], a[2]>>, b))
  ELSE RDiv(a, b)

(* jnp.maximum for a, b not Big: NaN when either is                        *)
FMaximum(a, b) ==
  IF IsNaN(a) \/ IsNaN(b) THEN NaN
  ELSE IF a = PosInf \/ b = PosInf THEN PosInf
  ELSE IF a = NegInf THEN b
  ELSE IF b = NegInf THEN a
  ELSE RMax(a, b)

(* jnp.sqrt of a mean of squares: the arrays of the model have means that  *)
(* are squares of rationals.                                               *)
ISqrt(n) == CHOOSE k \in 0..n : k * k = n
FSqrt(x) ==
  IF IsNaN(x) \/ x = NegInf THEN NaN
  ELSE IF x = PosInf THEN PosInf
  ELSE IF x[1] < 0 THEN NaN
  ELSE <<ISqrt(x[1]), ISqrt(x[2])>>

(* sanitize_values                                                         *)

SanitizeNaNOnly(array, replacement) ==
  [i \in 1..Len(array) |-> IF IsNaN(array[i]) THEN replacement ELSE array[i]]

(* jnp.nan_to_num(array, nan=replacement, posinf=replacement,              *)
(* neginf=replacement)                                                     *)
_sanitize_values(array, replacement) ==
  [i \in 1..Len(array) |-> IF IsFinite(array[i]) THEN array[i] ELSE replacement]

sanitize_values_init_fn(h, params) == None

sanitize_values_update_fn(h, updates, st) ==
  [updates |-> _sanitize_values(updates, h.replacement), state |-> st]

(* clip_updates                                                            *)

(* jnp.mean(array); the branch for more than 1e8 elements sums the last    *)
(* axis first and divides the total by the size, the same number.          *)
_reduce_mean(array) == FDivide(FSum(array), R(Len(array)))

_reduce_rms(array) ==
  LET sq == Map1(FSquare, array)
      sq_mean == _reduce_mean(sq)
  IN  FSqrt(sq_mean)

ClipWithoutSanitizing(update, clip_threshold) ==
  LET mean_update == _reduce_rms(update)
      denom == FMaximum(One, FDivide(mean_update, clip_threshold))
  IN  Map1(LAMBDA x : FDivide(x, denom), update)

_clip_update(update, clip_threshold) ==
  LET mean_update == _sanitize_values(<<_reduce_rms(update)>>, One)[1]
      denom == FMaximum(One, FDivide(mean_update, clip_threshold))
  IN  Map1(LAMBDA x : FDivide(x, denom), update)

clip_updates_init_fn(h, params) == None

clip_updates_update_fn(h, updates, st) ==
  [updates |-> _clip_update(updates, h.clip_threshold), state |-> st]

----------------------------------------------------------------------------
(* precondition_by_layered_adaptive_rms                                    *)

RFloor(q) == q[1] \div q[2]

(* jnp.repeat(vals, counts): counts[i] copies of vals[i], in order         *)
RECURSIVE Repeat(_, _)
Repeat(vals, counts) ==
  IF vals = <<>> THEN <<>>
  ELSE [i \in 1..(IF Head(counts) > 0 THEN Head(counts) ELSE 0) |-> Head(vals)]
       \o Repeat(Tail(vals), Tail(counts))

(* multiples = int32(floor(decay_distribution * length))                   *)
partition_floor(decay_distribution, length) ==
  [i \in 1..Len(decay_distribution) |-> RFloor(RMul(decay_distribution[i], R(length)))]

SpreadShortfall(decay_distribution, length) ==
  LET floors == partition_floor(decay_distribution, length)
  IN  [floors EXCEPT ![1] = floors[1] + length - SeqSum(floors)]

(* multiples.at[-1].set(multiples[-1] + length - sum(multiples))           *)
partition_multiples(decay_distribution, length) ==
  LET floors == partition_floor(decay_distribution, length)
      k == Len(floors)
  IN  [floors EXCEPT ![k] = floors[k] + length - SeqSum(floors)]

_generate_partition(decays, decay_distribution, length) ==
  Repeat(decays, partition_multiples(decay_distribution, length))

(* The array of shape [1, .., array_len, .., 1] broadcastable against the  *)
(* parameter; axes are 1-based here, 0-based in the code.                  *)
_generate_per_parameter_array(h, arr, params) ==
  LET rank == Len(params.shape)
      input_index == IF rank - 2 > 0 THEN rank - 2 ELSE 0
      output_index == rank - 1
      target_index == IF h.modality = "output" THEN output_index ELSE input_index
      array_len == params.shape[target_index + 1]
      full_array == _generate_partition(arr, h.decay_distribution, array_len)
  IN  [shape |-> [k \in 1..rank |-> IF k = target_index + 1 THEN array_len ELSE 1],
       data |-> full_array]

(* Broadcasting an array of the parameter's rank against the parameter:    *)
(* the element of `arr` that meets the element at flat position i.         *)
CoordOf(i0, shp, k) == (i0 \div Prod(SubSeq(shp, k + 1, Len(shp)))) % shp[k]

RECURSIVE BroadcastOffset(_, _, _, _)
BroadcastOffset(i0, shp, ashp, k) ==
  IF k > Len(shp) THEN 0
  ELSE (IF ashp[k] = 1 THEN 0 ELSE CoordOf(i0, shp, k))
         * Prod(SubSeq(ashp, k + 1, Len(ashp)))
       + BroadcastOffset(i0, shp, ashp, k + 1)

Broadcast(arr, shp) ==
  [i \in 1..Prod(shp) |-> arr.data[BroadcastOffset(i - 1, shp, arr.shape, 1) + 1]]

precondition_by_layered_adaptive_rms_init_fn(h, params) ==
  [count |-> 0,
   nu |-> zeros_like(params.shape),
   beta_array |-> _generate_per_parameter_array(h, h.decays, params),
   scale_array |-> _generate_per_parameter_array(h, h.scales, params)]

UpdateMomentUnclamped(g, t, beta, order) ==
  RAdd(RMul(RSub(One, beta), RPow(g, order)), RMul(beta, t))

(* one_minus_beta = jnp.where(one_minus_beta <= 0.0, 1, one_minus_beta)    *)
_update_moment_general(g, t, beta, order) ==
  LET one_minus_beta0 == RSub(One, beta)
      one_minus_beta == IF RLe(one_minus_beta0, Zero) THEN One ELSE one_minus_beta0
  IN  RAdd(RMul(one_minus_beta, RPow(g, order)), RMul(beta, t))

RegeneratedArrays(h, st, shp) ==
  [beta_array |-> _generate_per_parameter_array(h, h.scales, [shape |-> shp]),
   scale_array |-> _generate_per_parameter_array(h, h.decays, [shape |-> shp])]

(* The beta_array and scale_array of the returned state: state.beta_array  *)
(* and state.scale_array.                                                  *)
layered_arrays_out(h, st, shp) ==
  [beta_array |-> st.beta_array, scale_array |-> st.scale_array]

precondition_by_layered_adaptive_rms_update_fn(h, updates, st, shp) ==
  LET nu == Map3(LAMBDA g, t, b : _update_moment_general(g, t, b, 2),
                 updates, st.nu, Broadcast(st.beta_array, shp))
      count == Int32Add(st.count, 1)
      kept == layered_arrays_out(h, st, shp)
  IN  [updates |-> Map3(LAMBDA m, v, s :
                          [scale |-> s, of |-> Quot(m, RAdd(v, h.eps_root), Half, h.eps)],
                        updates, nu, Broadcast(st.scale_array, shp)),
       state |-> [count |-> count, nu |-> nu,
                  beta_array |-> kept.beta_array, scale_array |-> kept.scale_array]]

----------------------------------------------------------------------------
(* polyak_averaging                                                        *)

SeededEma(h, params) == [ema |-> params.data]

polyak_averaging_init_fn(h, params) == [ema |-> zeros_like(params.shape)]

EmaOfUpdates(h, updates, st, params) ==
  [updates |-> updates, state |-> [ema |-> _update_moment(updates, st.ema, h.decay, 1)]]

polyak_averaging_update_fn(h, updates, st, params) ==
  [updates |-> updates, state |-> [ema |-> _update_moment(params, st.ema, h.decay, 1)]]

(* add_decayed_weights                                                     *)

AddDecayedWeightsState == <<>>

add_decayed_weights_init_fn(h, params) == AddDecayedWeightsState

DecayedWithoutSign(h, updates, st, params) ==
  IF params = None THEN [raises |-> "ValueError"]
  ELSE [raises |-> "none",
        updates |-> Map2(LAMBDA g, p :
                           RAdd(g, RMul(RMul(h.learning_rate, h.weight_decay), p)),
                         updates, params),
        state |-> st]

add_decayed_weights_update_fn(h, updates, st, params) ==
  LET m == IF h.flip_sign THEN R(-1) ELSE R(1)
  IN  IF params = None THEN [raises |-> "ValueError"]
      ELSE [raises |-> "none",
            updates |-> Map2(LAMBDA g, p :
                               RAdd(g, RMul(RMul(RMul(m, h.learning_rate), h.weight_decay), p)),
                             updates, params),
            state |-> st]

(* nesterov(decay): optax.trace with nesterov=True.  The trace takes       *)
(* g + decay * trace and the update is g + decay * new_trace.              *)

nesterov_init_fn(h, params) == [trace |-> zeros_like(params.shape)]

nesterov_update_fn(h, updates, st) ==
  LET f(g, t) == RAdd(g, RMul(h.decay, t))
      new_trace == Map2(f, updates, st.trace)
  IN  [updates |-> Map2(f, updates, new_trace), state |-> [trace |-> new_trace]]

(* nesterovpp(moment_decay, update_decay)                                  *)

nesterovpp_init_fn(h, params) == [trace |-> zeros_like(params.shape)]

NesterovppOneDecay(h, updates, st) ==
  LET f_update(g, t) == RAdd(g, RMul(h.update_decay, t))
      new_trace == Map2(f_update, updates, st.trace)
  IN  [updates |-> Map2(f_update, updates, new_trace), state |-> [trace |-> new_trace]]

nesterovpp_update_fn(h, updates, st) ==
  LET f_moment(g, t) == RAdd(g, RMul(h.moment_decay, t))
      f_update(g, t) == RAdd(g, RMul(h.update_decay, t))
      new_trace == Map2(f_moment, updates, st.trace)
  IN  [updates |-> Map2(f_update, updates, new_trace), state |-> [trace |-> new_trace]]

----------------------------------------------------------------------------
(* The training loop: a transform is constructed, init_fn builds its state *)
(* from the initial parameters, and update_fn is called once per step with *)
(* the gradients, the state the previous call returned and, where the      *)
(* transform reads them, the current parameters.                           *)

Eps8 == Q(1, 100000000)
Quarter == Q(1, 4)
ThreeQuarters == Q(3, 4)

CountingTransforms ==
  {"precondition_by_rms", "precondition_by_yogi", "precondition_by_amsgrad",
   "bias_correction", "scale_by_adam", "scale_by_nadam",
   "precondition_by_layered_adaptive_rms"}

TransformNames ==
  CountingTransforms
    \cup {"scale_by_amsgrad", "polyak_averaging", "add_decayed_weights",
          "precondition_by_rss", "nesterov", "nesterovpp"}

HParams(t) ==
  CASE t = "precondition_by_rms" ->
         [decay : {Half}, eps : {Eps8}, eps_root : {Zero}, debias : BOOLEAN, power : {Half}]
    [] t = "precondition_by_yogi" ->
         [b2 : {Half}, eps : {Eps8}, eps_root : {Zero},
          initial_accumulator_value : {Quarter}, debias : BOOLEAN]
           \cup [b2 : {Zero, Half}, eps : {Eps8}, eps_root : {Zero},
                 initial_accumulator_value : {One}, debias : {FALSE}]
    [] t = "precondition_by_amsgrad" ->
         [b2 : {Half, ThreeQuarters}, eps : {Eps8}, eps_root : {Zero}]
    [] t = "scale_by_amsgrad" ->
         [b1 : {Half}, b2 : {Half, ThreeQuarters}, eps : {Eps8}, eps_root : {Zero}]
    [] t = "bias_correction" -> [decay : {Half, ThreeQuarters}]
    [] t \in {"scale_by_adam", "scale_by_nadam"} ->
         [b1 : {Half}, b2 : {ThreeQuarters}, eps : {Eps8}, eps_root : {Zero},
          debias : BOOLEAN, power : {Half}]
    [] t = "precondition_by_layered_adaptive_rms" ->
         [decays : {<<Half, One>>}, scales : {<<R(2), R(3)>>},
          decay_distribution : {<<Q(1, 3), Q(2, 3)>>, <<Half, Half>>},
          modality : {"input", "output"}, eps : {Eps8}, eps_root : {Zero}]
           \cup [decays : {<<Q(3, 2), One>>}, scales : {<<R(2), R(3)>>},
                 decay_distribution : {<<Half, Half>>},
                 modality : {"output"}, eps : {Eps8}, eps_root : {Zero}]
    [] t = "polyak_averaging" -> [decay : {Half, ThreeQuarters}]
    [] t = "precondition_by_rss" ->
         [initial_accumulator_value : {Zero, Quarter}, eps : {Q(1, 8)},
          power : {Half, One}]
    [] t = "add_decayed_weights" ->
         [weight_decay : {Half}, learning_rate : {One, R(2)}, flip_sign : BOOLEAN]
    [] t = "nesterov" -> [decay : {Half}]
    [] t = "nesterovpp" ->
         [moment_decay : {Half}, update_decay : {Half, Quarter}]
           \cup [moment_decay : {ThreeQuarters}, update_decay : {ThreeQuarters}]

Shapes(t) ==
  IF t = "precondition_by_layered_adaptive_rms" THEN {<<3>>, <<2, 2>>} ELSE {<<2>>}

GradVals == {R(-1), Zero, R(2)}

(* The gradient arrays a step may bring: the constant arrays over GradVals *)
(* and the arrays with one non-zero element.                               *)
Grads(shp) ==
  {full_like(shp, v) : v \in GradVals}
    \cup {[i \in 1..Prod(shp) |-> IF i = j THEN R(2) ELSE Zero] : j \in 1..Prod(shp)}

ParamArrays(shp) == {full_like(shp, v) : v \in {Zero, R(3)}} \cup {[i \in 1..Prod(shp) |-> R(i - 2)]}

init_fn(t, h, params) ==
  CASE t = "precondition_by_rms" -> precondition_by_rms_init_fn(h, params)
    [] t = "precondition_by_yogi" -> precondition_by_yogi_init_fn(h, params)
    [] t = "precondition_by_amsgrad" -> precondition_by_amsgrad_init_fn(h, params)
    [] t = "scale_by_amsgrad" -> scale_by_amsgrad_init_fn(h, params)
    [] t = "bias_correction" -> bias_correction_init_fn(h, params)
    [] t = "scale_by_adam" -> scale_by_adam_init_fn(h, params)
    [] t = "scale_by_nadam" -> scale_by_nadam_init_fn(h, params)
    [] t = "precondition_by_layered_adaptive_rms" ->
         precondition_by_layered_adaptive_rms_init_fn(h, params)
    [] t = "polyak_averaging" -> polyak_averaging_init_fn(h, params)
    [] t = "add_decayed_weights" -> add_decayed_weights_init_fn(h, params)
    [] t = "precondition_by_rss" -> precondition_by_rss_init_fn(h, params)
    [] t = "nesterov" -> nesterov_init_fn(h, params)
    [] t = "nesterovpp" -> nesterovpp_init_fn(h, params)

(* The counts a run starts from.  count = n > 0 is the state n updates     *)
(* with all-zero gradients reach from init_fn's state: such an update      *)
(* leaves every accumulator of a counting transform at its initial value   *)
(* (see ZeroGradientKeepsAccumulators) and adds one to count, which does   *)
(* not wrap below Int32Max.                                                *)
StartCounts(t) == IF t \in CountingTransforms THEN {0, Int32Max - 1} ELSE {0}

AfterZeroGradientUpdates(st, n) == IF n = 0 THEN st ELSE [st EXCEPT !.count = n]

NoCall == [fn |-> "none"]

Init ==
  /\ tname \in TransformNames
  /\ hp \in HParams(tname)
  /\ shape \in Shapes(tname)
  /\ start \in StartCounts(tname)
  /\ \E p \in ParamArrays(shape) :
       /\ last = [fn |-> "init_fn", params |-> p]
       /\ state = AfterZeroGradientUpdates(
                    init_fn(tname, hp, [shape |-> shape, data |-> p]), start)
  /\ out = None
  /\ raised = "none"
  /\ steps = 0
  /\ seen = <<>>
  /\ call = NoCall
  /\ ret = None

(* update_fn(updates, state, params) returned r.                           *)
Returns(g, p, r) ==
  /\ state' = r.state
  /\ out' = r.updates
  /\ raised' = "none"
  /\ last' = [fn |-> "update_fn", updates |-> g, state |-> state, params |-> p,
              out_before |-> out]
  /\ steps' = steps + 1
  /\ seen' = Append(seen, g)
  /\ UNCHANGED <<tname, hp, shape, start, call, ret>>

(* update_fn(updates, state, params) raised: the caller keeps its state.   *)
Raises(g, p, e) ==
  /\ raised' = e
  /\ out' = None
  /\ last' = [fn |-> "update_fn", updates |-> g, state |-> state, params |-> p,
              out_before |-> out]
  /\ steps' = steps + 1
  /\ seen' = Append(seen, g)
  /\ UNCHANGED <<tname, hp, shape, state, start, call, ret>>

Running(t) == tname = t /\ steps < MaxSteps

precondition_by_rms_update ==
  /\ Running("precondition_by_rms")
  /\ \E g \in Grads(shape) : Returns(g, None, precondition_by_rms_update_fn(hp, g, state))

precondition_by_yogi_update ==
  /\ Running("precondition_by_yogi")
  /\ \E g \in Grads(shape) : Returns(g, None, precondition_by_yogi_update_fn(hp, g, state))

precondition_by_amsgrad_update ==
  /\ Running("precondition_by_amsgrad")
  /\ \E g \in Grads(shape) : Returns(g, None, precondition_by_amsgrad_update_fn(hp, g, state))

scale_by_amsgrad_update ==
  /\ Running("scale_by_amsgrad")
  /\ \E g \in Grads(shape) : Returns(g, None, scale_by_amsgrad_update_fn(hp, g, state))

bias_correction_update ==
  /\ Running("bias_correction")
  /\ \E g \in Grads(shape) : Returns(g, None, bias_correction_update_fn(hp, g, state))

scale_by_adam_update ==
  /\ Running("scale_by_adam")
  /\ \E g \in Grads(shape) : Returns(g, None, scale_by_adam_update_fn(hp, g, state))

scale_by_nadam_update ==
  /\ Running("scale_by_nadam")
  /\ \E g \in Grads(shape) : Returns(g, None, scale_by_nadam_update_fn(hp, g, state))

precondition_by_layered_adaptive_rms_update ==
  /\ Running("precondition_by_layered_adaptive_rms")
  /\ \E g \in Grads(shape) :
       Returns(g, None, precondition_by_layered_adaptive_rms_update_fn(hp, g, state, shape))

polyak_averaging_update ==
  /\ Running("polyak_averaging")
  /\ \E g \in {full_like(shape, v) : v \in {R(-1), R(2)}}, p \in ParamArrays(shape) :
       Returns(g, p, polyak_averaging_update_fn(hp, g, state, p))

add_decayed_weights_update ==
  /\ Running("add_decayed_weights")
  /\ \E g \in {full_like(shape, v) : v \in {R(-1), R(2)}},
        p \in ParamArrays(shape) \cup {None} :
       LET r == add_decayed_weights_update_fn(hp, g, state, p)
       IN  IF r.raises = "none" THEN Returns(g, p, r) ELSE Raises(g, p, r.raises)

precondition_by_rss_update ==
  /\ Running("precondition_by_rss")
  /\ \E g \in Grads(shape) : Returns(g, None, precondition_by_rss_update_fn(hp, g, state))

nesterov_update ==
  /\ Running("nesterov")
  /\ \E g \in Grads(shape) : Returns(g, None, nesterov_update_fn(hp, g, state))

nesterovpp_update ==
  /\ Running("nesterovpp")
  /\ \E g \in Grads(shape) : Returns(g, None, nesterovpp_update_fn(hp, g, state))

Next ==
  \/ precondition_by_rms_update
  \/ precondition_by_yogi_update
  \/ precondition_by_amsgrad_update
  \/ scale_by_amsgrad_update
  \/ bias_correction_update
  \/ scale_by_adam_update
  \/ scale_by_nadam_update
  \/ precondition_by_layered_adaptive_rms_update
  \/ polyak_averaging_update
  \/ add_decayed_weights_update
  \/ precondition_by_rss_update
  \/ nesterov_update
  \/ nesterovpp_update

Spec == Init /\ [][Next]_vars

----------------------------------------------------------------------------
(* utils.extract_field over nested tuples.  A value is None, a non-tuple   *)
(* leaf (an array, a number), a dict holding a value, or a tuple with its  *)
(* elements; a namedtuple carries its _fields, a plain tuple none.         *)

NoneV == [none |-> TRUE]
Leaf(n) == [leaf |-> n]
Dict(v) == [dict |-> v]
Tuple(elems) == [fields |-> <<>>, elems |-> elems]
NamedTuple(fields, elems) == [fields |-> fields, elems |-> elems]

IsTuple(v) == "elems" \in DOMAIN v
HasField(v, field_name) == \E i \in 1..Len(v.fields) : v.fields[i] = field_name
getattr(v, field_name) == v.elems[CHOOSE i \in 1..Len(v.fields) : v.fields[i] = field_name]

RECURSIVE extract_field(_, _)
RECURSIVE extract_from_elements(_, _, _)

ExtractFromOneElement(st, field_name, i) ==
  IF i > Len(st.elems) THEN NoneV
  ELSE IF IsTuple(st.elems[i]) THEN extract_field(st.elems[i], field_name)
  ELSE NoneV

(* for element in state, from the i-th element on                          *)
extract_from_elements(st, field_name, i) ==
  IF i > Len(st.elems) THEN NoneV
  ELSE LET element == st.elems[i]
       IN  IF IsTuple(element)
             THEN LET field == extract_field(element, field_name)
                  IN  IF field # NoneV THEN field
                      ELSE extract_from_elements(st, field_name, i + 1)
             ELSE extract_from_elements(st, field_name, i + 1)

ExtractTopLevelOnly(st, field_name) ==
  IF HasField(st, field_name) THEN getattr(st, field_name) ELSE NoneV

extract_field(st, field_name) ==
  IF HasField(st, field_name) THEN getattr(st, field_name)
  ELSE extract_from_elements(st, field_name, 1)

----------------------------------------------------------------------------
(* utils.static_inject_hyperparams.  A factory's signature is the sequence *)
(* of its parameters, each with or without a default; a call passes the    *)
(* first npos parameters by position and a set of names by keyword.        *)

Param(name, has_default) == [name |-> name, has_default |-> has_default]
Names(signature) == {signature[i].name : i \in 1..Len(signature)}

(* injectable_args: {injectable_args} for a str, set(injectable_args) else *)
InjectableSet(injectable_args) ==
  IF "str" \in DOMAIN injectable_args THEN {injectable_args.str}
  ELSE injectable_args.names

(* inner_signature.bind of the call: the names the call binds, or a        *)
(* TypeError for an unknown keyword, a parameter given twice or a missing  *)
(* required parameter.                                                     *)
BoundByCall(signature, npos, kwargs) ==
  {signature[i].name : i \in 1..npos} \cup kwargs

BindFails(signature, npos, kwargs) ==
  \/ npos > Len(signature)
  \/ ~(kwargs \subseteq Names(signature))
  \/ \E i \in 1..Len(signature) :
       \/ i <= npos /\ signature[i].name \in kwargs
       \/ /\ i > npos
          /\ signature[i].name \notin kwargs
          /\ ~signature[i].has_default

BoundWithoutDefaults(signature, npos, kwargs) == BoundByCall(signature, npos, kwargs)

(* bound_arguments.apply_defaults(); bound_arguments.arguments.keys()      *)
BoundArguments(signature, npos, kwargs) ==
  BoundByCall(signature, npos, kwargs)
    \cup {signature[i].name : i \in {j \in 1..Len(signature) : signature[j].has_default}}

(* wrapped_transform, called: what it hands to                             *)
(* optax.inject_hyperparams as static_args.                                *)
wrapped_transform(signature, injectable_args, npos, kwargs) ==
  IF BindFails(signature, npos, kwargs) THEN [raises |-> "TypeError"]
  ELSE [raises |-> "none",
        static_args |-> BoundArguments(signature, npos, kwargs)
                          \ InjectableSet(injectable_args)]

----------------------------------------------------------------------------
(* transformation_registry.  A dict is a function from its keys; a         *)
(* constructor is named by the function the dict entry refers to.          *)

_composites ==
  ("scale_by_adam" :> "scale_by_adam")
    @@ ("scale_by_yogi" :> "optax.scale_by_yogi")
    @@ ("scale_by_amsgrad" :> "scale_by_amsgrad")
    @@ ("scale_by_nadam" :> "scale_by_nadam")
    @@ ("scale_by_rms" :> "precondition_by_rms")
    @@ ("sgd" :> "optax.sgd")

_first_moment_accumulators ==
  ("nesterov" :> "nesterov")
    @@ ("polyak_hb" :> "polyak_hb")
    @@ ("first_moment_ema" :> "first_moment_ema")
    @@ ("nesterovpp" :> "nesterovpp")

_preconditioners ==
  ("precondition_by_rms" :> "precondition_by_rms")
    @@ ("precondition_by_yogi" :> "precondition_by_yogi")
    @@ ("precondition_by_rss" :> "precondition_by_rss")
    @@ ("precondition_by_amsgrad" :> "precondition_by_amsgrad")
    @@ ("precondition_by_layered_adaptive_rms" :> "precondition_by_layered_adaptive_rms")

_miscellaneous ==
  ("scale_by_learning_rate" :> "scale_by_learning_rate")
    @@ ("add_decayed_weights" :> "add_decayed_weights")
    @@ ("polyak_averaging" :> "polyak_averaging")
    @@ ("clip_updates" :> "clip_updates")
    @@ ("sanitize_values" :> "sanitize_values")

EmptyDict == <<>>

UpdateReplacing(d, other) == other

(* d.update(other): the keys of both, other's value where both have one    *)
dict_update(d, other) ==
  [k \in DOMAIN d \cup DOMAIN other |-> IF k \in DOMAIN other THEN other[k] ELSE d[k]]

transformation_registry ==
  dict_update(dict_update(dict_update(dict_update(EmptyDict, _composites),
                                      _preconditioners),
                          _first_moment_accumulators),
              _miscellaneous)

(* transformation_registry[name]                                           *)
registry_lookup(name) ==
  IF name \in DOMAIN transformation_registry
    THEN [raises |-> "none", constructor |-> transformation_registry[name]]
    ELSE [raises |-> "KeyError"]

(* The signatures of the constructors defined in transform.py.             *)
Defaulted(names) == [i \in 1..Len(names) |-> Param(names[i], TRUE)]
Required(names) == [i \in 1..Len(names) |-> Param(names[i], FALSE)]

LocalConstructors ==
  {"scale_by_adam", "scale_by_amsgrad", "scale_by_nadam", "precondition_by_rms",
   "nesterov", "polyak_hb", "first_moment_ema", "nesterovpp",
   "precondition_by_yogi", "precondition_by_rss", "precondition_by_amsgrad",
   "precondition_by_layered_adaptive_rms", "scale_by_learning_rate",
   "add_decayed_weights", "polyak_averaging", "clip_updates", "sanitize_values"}

signature_of(constructor) ==
  CASE constructor \in {"scale_by_adam", "scale_by_nadam"} ->
         Defaulted(<<"b1", "b2", "eps", "eps_root", "debias", "power">>)
    [] constructor = "scale_by_amsgrad" ->
         Defaulted(<<"b1", "b2", "eps", "eps_root", "mu_dtype">>)
    [] constructor = "precondition_by_rms" ->
         Defaulted(<<"decay", "eps", "eps_root", "debias", "power">>)
    [] constructor \in {"nesterov", "polyak_hb"} ->
         Defaulted(<<"decay", "accumulator_dtype">>)
    [] constructor = "first_moment_ema" ->
         Defaulted(<<"decay", "debias", "accumulator_dtype">>)
    [] constructor = "nesterovpp" -> Required(<<"moment_decay", "update_decay">>)
    [] constructor = "precondition_by_yogi" ->
         Defaulted(<<"b2", "eps", "eps_root", "initial_accumulator_value", "debias">>)
    [] constructor = "precondition_by_rss" ->
         Defaulted(<<"initial_accumulator_value", "eps", "power">>)
    [] constructor = "precondition_by_amsgrad" -> Defaulted(<<"b2", "eps", "eps_root">>)
    [] constructor = "precondition_by_layered_adaptive_rms" ->
         Required(<<"decays", "scales", "decay_distribution">>)
           \o Defaulted(<<"modality", "eps", "eps_root">>)
    [] constructor = "scale_by_learning_rate" ->
         Required(<<"learning_rate">>) \o Defaulted(<<"flip_sign">>)
    [] constructor = "add_decayed_weights" ->
         Defaulted(<<"weight_decay", "learning_rate", "flip_sign">>)
    [] constructor = "polyak_averaging" -> Defaulted(<<"decay">>)
    [] constructor = "clip_updates" -> Defaulted(<<"clip_threshold">>)
    [] constructor = "sanitize_values" -> Defaulted(<<"replacement">>)

ConstructsWhateverIsPassed(constructor, kwargs) ==
  [raises |-> "none", transform |-> constructor]

(* The constructor called with keyword arguments: Python raises TypeError  *)
(* when a parameter without a default is not passed or a keyword is not a  *)
(* parameter; otherwise the constructor returns its init_fn, update_fn     *)
(* pair.                                                                   *)
call_constructor(constructor, kwargs) ==
  IF BindFails(signature_of(constructor), 0, kwargs) THEN [raises |-> "TypeError"]
  ELSE [raises |-> "none", transform |-> constructor]

(* transformation_registry[name] called with keyword arguments            *)
registry_construct(name, kwargs) ==
  LET found == registry_lookup(name)
  IN  IF found.raises # "none" THEN found
      ELSE call_constructor(found.constructor, kwargs)

----------------------------------------------------------------------------
(* model_lib/dlrm.py: dot_interact.  concat_features is a sequence (batch) *)
(* of sequences (features) of integer vectors; indices are 0-based as in   *)
(* the code.                                                               *)

Dot(x, y) == SeqSum([k \in 1..Len(x) |-> x[k] * y[k]])

(* jnp.matmul(concat_features, jnp.transpose(concat_features, [0, 2, 1]))  *)
xactions_of(concat_features) ==
  [b \in 1..Len(concat_features) |->
    [i \in 1..Len(concat_features[b]) |->
      [j \in 1..Len(concat_features[b]) |->
        Dot(concat_features[b][i], concat_features[b][j])]]]

(* The index pairs <<row, col>> of an n x n array, in row-major order.     *)
AllPairs(n) == [m \in 1..(n * n) |-> <<(m - 1) \div n, (m - 1) % n>>]

(* jnp.triu_indices(n): row <= col.  jnp.tril_indices(n): col <= row.      *)
triu_indices(n) == SelectSeq(AllPairs(n), LAMBDA p : p[1] <= p[2])
tril_indices(n) == SelectSeq(AllPairs(n), LAMBDA p : p[2] <= p[1])

dot_interact(concat_features, keep_diags) ==
  LET batch_size == Len(concat_features)
      xactions == xactions_of(concat_features)
      feature_dim == Len(xactions[1])
      indices == IF keep_diags THEN triu_indices(feature_dim)
                 ELSE tril_indices(feature_dim)
      num_elems == Len(indices)
      flat == [m \in 0..(batch_size * num_elems - 1) |->
                xactions[(m \div num_elems) + 1]
                        [indices[(m % num_elems) + 1][1] + 1]
                        [indices[(m % num_elems) + 1][2] + 1]]
  IN  [b \in 1..batch_size |-> [k \in 1..num_elems |-> flat[(b - 1) * num_elems + k - 1]]]

(* model_lib/dlrm.py: DLRM.__call__, as far as its local variable `train`  *)
(* and the top MLP loop go.  A local is bound to a value or unbound;       *)
(* reading an unbound local raises UnboundLocalError.                      *)

Bound(v) == [value |-> v]
Unbound == [unbound |-> TRUE]

(* del train                                                               *)
del_train(locals) == [locals EXCEPT !.train = Unbound]

(* for layer_idx, fan_out in enumerate(mlp_top_dims), from layer_idx on;   *)
(* dropouts lists the nn.Dropout applications made so far.                 *)
RECURSIVE top_mlp(_, _, _, _)
top_mlp(module, locals, layer_idx, dropouts) ==
  LET num_layers_top == Len(module.mlp_top_dims)
  IN  IF layer_idx >= num_layers_top
        THEN [raises |-> "none", logits |-> "top_mlp_input", dropouts |-> dropouts]
      ELSE IF RLt(Zero, module.dropout_rate) /\ layer_idx = num_layers_top - 2
        THEN IF locals.train = Unbound THEN [raises |-> "UnboundLocalError"]
             ELSE top_mlp(module, locals, layer_idx + 1,
                          Append(dropouts, [after_layer |-> layer_idx,
                                            rate |-> module.dropout_rate,
                                            deterministic |-> ~locals.train.value]))
      ELSE top_mlp(module, locals, layer_idx + 1, dropouts)

DLRM_call(module, x, train) ==
  LET locals == del_train([x |-> Bound(x), train |-> Bound(train)])
  IN  top_mlp(module, locals, 0, <<>>)

----------------------------------------------------------------------------
(* The pure functions, each applied once to an input drawn by InitFn.      *)

MaxBuckets == 3

IncrementInputs ==
  {Int32Min + i : i \in 0..IncSpan} \cup ((-IncSpan)..IncSpan)
    \cup {Int32Max - i : i \in 0..IncSpan}

(* The decay distributions: k proportions n/den, each >= 0, summing to 1.  *)
(* The dyadic ones and their products with a length are exact in float32;  *)
(* the two decimal ones round up in float32 and their float32 products     *)
(* have the floors of the exact products for every length drawn.           *)
Denominators == {2, 4, 8}
DistributionsOver(den, k) ==
  {d \in [1..k -> {Q(n, den) : n \in 0..den}] :
     SeqSum([i \in 1..k |-> d[i][1] * (den \div d[i][2])]) = den}
Distributions ==
  UNION {DistributionsOver(den, k) : den \in Denominators, k \in 1..MaxBuckets}
    \cup {<<Q(33, 100), Q(33, 100), Q(34, 100)>>, <<Q(3, 10), Q(3, 10), Q(4, 10)>>}
DecaysFor(k) == [i \in 1..k |-> Q(i, k)]

Leaves == {NoneV, Leaf(5), Dict(NamedTuple(<<"nu">>, <<Leaf(9)>>))}
FieldsOfOne == {<<>>, <<"nu">>, <<"x">>}
FieldsOfTwo == {<<>>, <<"nu", "x">>, <<"x", "nu">>, <<"x", "y">>}
TuplesOver(S) ==
  {Tuple(<<>>)}
    \cup {NamedTuple(f, <<a>>) : f \in FieldsOfOne, a \in S}
    \cup {NamedTuple(f, <<a, b>>) : f \in FieldsOfTwo, a \in S, b \in S}
NestedTuples == TuplesOver(Leaves \cup TuplesOver(Leaves))
FieldNames == {"nu", "missing"}

(* Signatures of factories of transform.py.                                *)
Signatures ==
  {<<Param("learning_rate", FALSE), Param("flip_sign", TRUE)>>,
   <<Param("weight_decay", TRUE), Param("learning_rate", TRUE), Param("flip_sign", TRUE)>>,
   <<Param("moment_decay", FALSE), Param("update_decay", FALSE)>>,
   <<Param("decay", TRUE)>>}
Injectables ==
  {[str |-> "learning_rate"], [str |-> "decay"], [names |-> {}],
   [names |-> {"learning_rate"}], [names |-> {"learning_rate", "weight_decay"}],
   [names |-> {"moment_decay", "momentum"}]}

(* Names looked up in the registry: its keys, and names that are not.     *)
LookupNames ==
  DOMAIN transformation_registry
    \cup {"Scale_By_Adam", "adam", "bias_correction", "precondition_by_rss ", ""}
LocalNames == {n \in DOMAIN transformation_registry :
                 transformation_registry[n] \in LocalConstructors}
ConstructorKwargs ==
  {{}, {"learning_rate"}, {"moment_decay"}, {"moment_decay", "update_decay"},
   {"decays", "scales", "decay_distribution"}, {"decay"}}

(* Arrays with entries that are not numbers, or too large to square.       *)
Unusual == {NaN, PosInf, NegInf, Big(One)}
SanitizeArrays == [1..2 -> Unusual \cup {R(-1), Zero, R(2)}]
Replacements == {Zero, One, PosInf}
StatesGiven == {None, [count |-> 3]}
ClipArrays ==
  {<<R(3)>>, <<R(2), R(-2), R(2), R(-2)>>}
    \cup {[i \in 1..4 |-> v] : v \in {Zero, Half, R(-1), R(2)}}
    \cup {[i \in 1..4 |-> IF i = j THEN v ELSE Zero] : v \in {R(2), R(-4), R(8)}, j \in {1, 4}}
    \cup {[i \in 1..4 |-> IF i = 1 THEN v ELSE w] : v \in Unusual, w \in {Zero, One, R(-4)}}
ClipThresholds == {Zero, Half, One, R(2)}

(* Feature stacks: every single-example stack of up to MaxFeatures         *)
(* one-dimensional features, and two-example stacks of two-dimensional     *)
(* features.                                                               *)
MaxFeatures == 3
FeatureStacks ==
  UNION {{<<f>> : f \in [1..n -> {<<-1>>, <<1>>, <<2>>}]} : n \in 1..MaxFeatures}
    \cup {[b \in 1..2 |-> [i \in 1..n |-> <<i + b, (2 * i) - b>>]] : n \in 1..MaxFeatures}

(* DLRM modules: top MLPs of 0 to MaxTopLayers layers, with and without   *)
(* dropout.                                                                *)
MaxTopLayers == 3
TopLayerDims == <<512, 256, 128, 1>>
TopDims == {SubSeq(TopLayerDims, 5 - n, 4) : n \in 0..MaxTopLayers}
DropoutRates == {Zero, Q(1, 10), Half}

Calls ==
  {[fn |-> "_safe_int32_increment", count |-> c] : c \in IncrementInputs}
    \cup {[fn |-> "_generate_partition", decays |-> DecaysFor(Len(d)),
           decay_distribution |-> d, length |-> n] :
            d \in Distributions, n \in 0..MaxLength}
    \cup {[fn |-> "extract_field", state |-> t, field_name |-> f] :
            t \in NestedTuples, f \in FieldNames}
    \cup {[fn |-> "wrapped_transform", signature |-> sg, injectable_args |-> inj,
           npos |-> n, kwargs |-> kw] :
            sg \in Signatures, inj \in Injectables, n \in 0..2,
            kw \in SUBSET {"learning_rate", "flip_sign", "update_decay", "momentum"}}
    \cup {[fn |-> "sanitize_values", h |-> [replacement |-> r], updates |-> a,
           state |-> st] :
            r \in Replacements, a \in SanitizeArrays, st \in StatesGiven}
    \cup {[fn |-> "clip_updates", h |-> [clip_threshold |-> c], updates |-> a,
           state |-> st] :
            c \in ClipThresholds, a \in ClipArrays, st \in StatesGiven}
    \cup {[fn |-> "dot_interact", concat_features |-> f, keep_diags |-> k] :
            f \in FeatureStacks, k \in BOOLEAN}
    \cup {[fn |-> "DLRM.__call__",
           module |-> [mlp_top_dims |-> dims, dropout_rate |-> r],
           x |-> "x", train |-> t] :
            dims \in TopDims, r \in DropoutRates, t \in BOOLEAN}
    \cup {[fn |-> "registry_lookup", name |-> n] : n \in LookupNames}
    \cup {[fn |-> "registry_construct", name |-> n, kwargs |-> kw] :
            n \in LocalNames, kw \in ConstructorKwargs}

InitFn ==
  /\ call \in Calls
  /\ ret = <<>>
  /\ tname = "none"
  /\ hp = <<>>
  /\ shape = <<>>
  /\ state = <<>>
  /\ out = None
  /\ last = NoCall
  /\ raised = "none"
  /\ start = 0
  /\ steps = 0
  /\ seen = <<>>

Applies(fn, value) ==
  /\ call.fn = fn
  /\ ret = <<>>
  /\ ret' = <<value>>
  /\ UNCHANGED <<tname, hp, shape, state, out, last, raised, start, steps, seen, call>>

safe_int32_increment_call ==
  /\ call.fn = "_safe_int32_increment"
  /\ Applies("_safe_int32_increment", _safe_int32_increment(call.count))

generate_partition_call ==
  /\ call.fn = "_generate_partition"
  /\ Applies("_generate_partition",
             _generate_partition(call.decays, call.decay_distribution, call.length))

extract_field_call ==
  /\ call.fn = "extract_field"
  /\ Applies("extract_field", extract_field(call.state, call.field_name))

wrapped_transform_call ==
  /\ call.fn = "wrapped_transform"
  /\ Applies("wrapped_transform",
             wrapped_transform(call.signature, call.injectable_args, call.npos, call.kwargs))

sanitize_values_update ==
  /\ call.fn = "sanitize_values"
  /\ Applies("sanitize_values", sanitize_values_update_fn(call.h, call.updates, call.state))

clip_updates_update ==
  /\ call.fn = "clip_updates"
  /\ Applies("clip_updates", clip_updates_update_fn(call.h, call.updates, call.state))

dot_interact_call ==
  /\ call.fn = "dot_interact"
  /\ Applies("dot_interact", dot_interact(call.concat_features, call.keep_diags))

DLRM_call_call ==
  /\ call.fn = "DLRM.__call__"
  /\ Applies("DLRM.__call__", DLRM_call(call.module, call.x, call.train))

registry_lookup_call ==
  /\ call.fn = "registry_lookup"
  /\ Applies("registry_lookup", registry_lookup(call.name))

registry_construct_call ==
  /\ call.fn = "registry_construct"
  /\ Applies("registry_construct", registry_construct(call.name, call.kwargs))

NextFn ==
  \/ safe_int32_increment_call
  \/ generate_partition_call
  \/ extract_field_call
  \/ wrapped_transform_call
  \/ sanitize_values_update
  \/ clip_updates_update
  \/ dot_interact_call
  \/ DLRM_call_call
  \/ registry_lookup_call
  \/ registry_construct_call

SpecFn == InitFn /\ [][NextFn]_vars

----------------------------------------------------------------------------
(* Properties.                                                             *)

Updated == last.fn = "update_fn"
Returned(fn) == call.fn = fn /\ ret # <<>>

AllZero(a) == \A i \in 1..Len(a) : a[i] = Zero

(* An update with all-zero gradients leaves the accumulators of a counting *)
(* transform at their initial values: the states Init starts from with     *)
(* count > 0 are states of the program.                                    *)
ZeroGradientKeepsAccumulators ==
  (/\ tname \in CountingTransforms
   /\ Updated
   /\ AllZero(last.updates)
   /\ [last.state EXCEPT !.count = 0]
        = init_fn(tname, hp, [shape |-> shape, data |-> zeros_like(shape)]))
  => [state EXCEPT !.count = 0] = [last.state EXCEPT !.count = 0]

(* C1: in every transform whose state carries a step counter, init sets    *)
(* count to 0, each update returns a count one more than the count it was  *)
(* given, and an update given count = int32 max returns count = int32 max  *)
(* instead of a negative count.                                            *)
C1_CountStartsAtZeroIncrementsAndSaturates ==
  tname \in CountingTransforms =>
    /\ (steps = 0 /\ start = 0 => state.count = 0)
    /\ (Updated =>
          IF last.state.count = Int32Max
            THEN state.count = Int32Max
            ELSE state.count = last.state.count + 1)

(* C2: _safe_int32_increment(count) is count + 1 below the int32 maximum,  *)
(* the int32 maximum at the int32 maximum, and never less than count.      *)
C2_SafeIncrementSaturates ==
  Returned("_safe_int32_increment") =>
    /\ (call.count < Int32Max => ret[1] = call.count + 1)
    /\ (call.count = Int32Max => ret[1] = Int32Max)
    /\ ret[1] >= call.count

C2_Witness ==
  /\ Returned("_safe_int32_increment")
  /\ call.count = Int32Max
  /\ ret[1] = Int32Max


(* C3: for a distribution summing to 1 and an axis length L,               *)
(* _generate_partition takes multiples[i] = floor(distribution[i] * L),    *)
(* gives the whole shortfall L - sum(multiples) to the last bucket, so the *)
(* multiples are non-negative and sum to L, and returns a vector of length *)
(* L whose first multiples[1] positions hold decays[1], the next           *)
(* multiples[2] hold decays[2], and so on.                                 *)
FloorOf(q, length) ==
  CHOOSE f \in 0..length : f * q[2] <= q[1] * length /\ q[1] * length < (f + 1) * q[2]
ExpectedMultiples(distribution, length) ==
  LET k == Len(distribution)
      floors == [i \in 1..k |-> FloorOf(distribution[i], length)]
  IN  [i \in 1..k |-> IF i < k THEN floors[i]
                      ELSE length - SeqSum(SubSeq(floors, 1, k - 1))]
BucketOf(multiples, pos) ==
  CHOOSE i \in 1..Len(multiples) :
    /\ SeqSum(SubSeq(multiples, 1, i - 1)) < pos
    /\ pos <= SeqSum(SubSeq(multiples, 1, i))
C3_PartitionFillsTheAxis ==
  Returned("_generate_partition") =>
    LET m == ExpectedMultiples(call.decay_distribution, call.length)
    IN  /\ \A i \in 1..Len(m) : m[i] >= 0
        /\ SeqSum(m) = call.length
        /\ Len(ret[1]) = call.length
        /\ \A pos \in 1..call.length : ret[1][pos] = call.decays[BucketOf(m, pos)]

C3_Witness ==
  /\ Returned("_generate_partition")
  /\ call.decay_distribution = <<Q(33, 100), Q(33, 100), Q(34, 100)>>
  /\ call.length = 10
  /\ ret[1] = Repeat(call.decays, <<3, 3, 4>>)

(* C4: in precondition_by_layered_adaptive_rms every update returns the    *)
(* beta_array and scale_array of the state it was given, so that after any *)
(* sequence of updates they are the arrays init computed.                  *)
C4_LayeredArraysAreFrozen ==
  tname = "precondition_by_layered_adaptive_rms" =>
    /\ state.beta_array = _generate_per_parameter_array(hp, hp.decays, [shape |-> shape])
    /\ state.scale_array = _generate_per_parameter_array(hp, hp.scales, [shape |-> shape])
    /\ (Updated => /\ state.beta_array = last.state.beta_array
                   /\ state.scale_array = last.state.scale_array)

C4_Witness ==
  /\ tname = "precondition_by_layered_adaptive_rms"
  /\ steps = MaxSteps
  /\ state.nu # zeros_like(shape)
  /\ state.beta_array.data # state.scale_array.data
  /\ state.beta_array = last.state.beta_array

(* C5: extract_field returns the value of the field when the top-level     *)
(* tuple is a named tuple with that field, without looking deeper;         *)
(* otherwise the first result that is not None among the recursive results *)
(* for the elements that are tuples, in order; and None when no named      *)
(* tuple in the nesting has the field.                                     *)
RECURSIVE FirstNotNone(_)
FirstNotNone(results) ==
  IF results = <<>> THEN NoneV
  ELSE IF Head(results) # NoneV THEN Head(results) ELSE FirstNotNone(Tail(results))
RECURSIVE TupleElements(_)
TupleElements(elems) ==
  IF elems = <<>> THEN <<>>
  ELSE (IF IsTuple(Head(elems)) THEN <<Head(elems)>> ELSE <<>>) \o TupleElements(Tail(elems))
RECURSIVE SomeNamedTupleHasField(_, _)
SomeNamedTupleHasField(v, field_name) ==
  /\ IsTuple(v)
  /\ \/ HasField(v, field_name)
     \/ \E i \in 1..Len(v.elems) : SomeNamedTupleHasField(v.elems[i], field_name)
C5_ExtractFieldSearchOrder ==
  Returned("extract_field") =>
    LET tuples == TupleElements(call.state.elems)
    IN  /\ (HasField(call.state, call.field_name)
              => ret[1] = getattr(call.state, call.field_name))
        /\ (~HasField(call.state, call.field_name)
              => ret[1] = FirstNotNone([i \in 1..Len(tuples) |->
                                          extract_field(tuples[i], call.field_name)]))
        /\ (~SomeNamedTupleHasField(call.state, call.field_name) => ret[1] = NoneV)

C5_Witness ==
  /\ Returned("extract_field")
  /\ call.field_name = "nu"
  /\ call.state = Tuple(<<Dict(NamedTuple(<<"nu">>, <<Leaf(9)>>)),
                          NamedTuple(<<"x", "nu">>, <<NoneV, Leaf(5)>>)>>)
  /\ ret[1] = Leaf(5)

(* C6: on every call of the wrapped constructor that binds, the static set *)
(* handed to optax.inject_hyperparams is the names of all the factory's    *)
(* parameters, those filled from defaults included, minus the injectable   *)
(* set (a single string being one name); it is disjoint from the           *)
(* injectable set.                                                         *)
InjectableNames(injectable_args) ==
  IF "str" \in DOMAIN injectable_args THEN {injectable_args.str} ELSE injectable_args.names
C6_StaticIsEverythingNotInjectable ==
  Returned("wrapped_transform") /\ ret[1].raises = "none" =>
    /\ ret[1].static_args
         = Names(call.signature) \ InjectableNames(call.injectable_args)
    /\ ret[1].static_args \cap InjectableNames(call.injectable_args) = {}

C6_Witness ==
  /\ Returned("wrapped_transform")
  /\ ret[1].raises = "none"
  /\ call.injectable_args = [str |-> "learning_rate"]
  /\ call.npos = 1
  /\ call.kwargs = {}
  /\ ret[1].static_args = {"flip_sign"}

(* C7: add_decayed_weights.update with params = None raises ValueError and *)
(* returns nothing; with params it returns, per element,                   *)
(* updates + m * learning_rate * weight_decay * params, m = -1 when        *)
(* flip_sign and +1 otherwise, and the state it was given.                 *)
C7_AddDecayedWeights ==
  tname = "add_decayed_weights" /\ Updated =>
    IF last.params = None
      THEN raised = "ValueError" /\ out = None
      ELSE /\ raised = "none"
           /\ state = last.state
           /\ out = [i \in 1..Len(last.updates) |->
                       RAdd(last.updates[i],
                            RMul(IF hp.flip_sign THEN R(-1) ELSE R(1),
                                 RMul(hp.learning_rate,
                                      RMul(hp.weight_decay, last.params[i]))))]

C7_Witness ==
  /\ tname = "add_decayed_weights"
  /\ Updated
  /\ last.params = None
  /\ raised = "ValueError"
  /\ out = None

(* C8: in precondition_by_amsgrad and scale_by_amsgrad the nu_hat in the   *)
(* denominator of one update is, element-wise, at least the nu_hat in the  *)
(* denominator of the update before.  (eps_root is 0 in the model, so the  *)
(* radicand of an emitted value is its nu_hat.)                            *)
C8_NuHatNeverDecreases ==
  (/\ tname \in {"precondition_by_amsgrad", "scale_by_amsgrad"}
   /\ Updated
   /\ last.out_before # None)
  => \A i \in 1..Len(out) : RLe(last.out_before[i].rad, out[i].rad)

(* C9: polyak_averaging.update returns the updates it was given and a      *)
(* state whose ema is (1 - decay) * params + decay * old ema per element:  *)
(* of the parameters, not of the updates.                                  *)
C9_PolyakAveragesParams ==
  tname = "polyak_averaging" /\ Updated =>
    /\ out = last.updates
    /\ state.ema = [i \in 1..Len(last.params) |->
                      RAdd(RMul(RSub(One, hp.decay), last.params[i]),
                           RMul(hp.decay, last.state.ema[i]))]

C9_Witness ==
  /\ tname = "polyak_averaging"
  /\ Updated
  /\ steps >= 2
  /\ last.params # last.updates
  /\ last.state.ema # zeros_like(shape)
  /\ state.ema # last.state.ema
  /\ out = last.updates

(* C10 as stated: the ema right after polyak_averaging.init equals the     *)
(* initial parameter values.                                               *)
C10_InitSeedsEmaFromParams ==
  tname = "polyak_averaging" /\ steps = 0 => state.ema = last.params

(* C10, amended: the ema right after polyak_averaging.init is all zeros,   *)
(* of the parameters' shape, whatever the parameter values; as for every   *)
(* other transform, the state init returns does not depend on them.        *)
C10_InitZeroesEma ==
  steps = 0 /\ start = 0 =>
    /\ state = init_fn(tname, hp, [shape |-> shape, data |-> zeros_like(shape)])
    /\ (tname = "polyak_averaging" =>
          /\ Len(state.ema) = Len(last.params)
          /\ AllZero(state.ema))

C10_Witness ==
  /\ tname = "polyak_averaging"
  /\ steps = 0
  /\ ~AllZero(last.params)
  /\ AllZero(state.ema)

(* C11: precondition_by_rss.init sets every element of sum_of_squares to   *)
(* initial_accumulator_value; each update returns sum_of_squares = the one *)
(* it was given + g * g per element, with no decay, so an element never    *)
(* decreases and after n updates it is initial_accumulator_value plus the  *)
(* sum of the n squared gradients.                                         *)
RECURSIVE SumOfSquaresAt(_, _)
SumOfSquaresAt(history, i) ==
  IF history = <<>> THEN Zero
  ELSE RAdd(RMul(Head(history)[i], Head(history)[i]), SumOfSquaresAt(Tail(history), i))
C11_RssAccumulatesSquares ==
  tname = "precondition_by_rss" =>
    /\ Len(state.sum_of_squares) = Prod(shape)
    /\ (steps = 0 => \A i \in 1..Prod(shape) :
                       state.sum_of_squares[i] = hp.initial_accumulator_value)
    /\ (Updated => \A i \in 1..Prod(shape) :
          /\ state.sum_of_squares[i]
               = RAdd(last.state.sum_of_squares[i],
                      RMul(last.updates[i], last.updates[i]))
          /\ RLe(last.state.sum_of_squares[i], state.sum_of_squares[i]))
    /\ \A i \in 1..Prod(shape) :
         state.sum_of_squares[i]
           = RAdd(hp.initial_accumulator_value, SumOfSquaresAt(seen, i))

C11_Witness ==
  /\ tname = "precondition_by_rss"
  /\ steps = MaxSteps
  /\ hp.initial_accumulator_value = Quarter
  /\ seen[1] # seen[2]
  /\ state.sum_of_squares[1] = RAdd(Quarter, R(9))
  /\ state.sum_of_squares[2] # state.sum_of_squares[1]

(* Two emitted terms with the same numerator and the same power, 1/2 or 1, *)
(* denote the same number: the numerator is 0, or the denominators         *)
(* rad**power + eps are equal.  For power 1/2, sqrt(ra) - sqrt(rb) = c is  *)
(* decided in the rationals: for c = 0 it is ra = rb, and otherwise        *)
(* sqrt(rb) is t = (ra - rb - c*c) / (2*c), which must be a non-negative   *)
(* root of rb with t + c, the root of ra, non-negative.                    *)
SqrtDifferenceIs(ra, rb, c) ==
  IF c = Zero THEN ra = rb
  ELSE LET t == RDiv(RSub(RSub(ra, rb), RMul(c, c)), RMul(R(2), c))
       IN  /\ RLe(Zero, t)
           /\ RLe(Zero, RAdd(t, c))
           /\ RMul(t, t) = rb
SameValue(a, b) ==
  /\ a.num = b.num
  /\ a.power = b.power
  /\ \/ a.num = Zero
     \/ IF a.power = One THEN RAdd(a.rad, a.eps) = RAdd(b.rad, b.eps)
        ELSE SqrtDifferenceIs(a.rad, b.rad, RSub(b.eps, a.eps))

(* C12 as stated: precondition_by_rss.update emits, per element,           *)
(* g / (sum_of_squares**power + eps) with the sum_of_squares it returns:   *)
(* eps is added after the power is taken.                                  *)
C12_RssAddsEpsAfterThePower ==
  tname = "precondition_by_rss" /\ Updated =>
    \A i \in 1..Prod(shape) :
      SameValue(out[i], Quot(last.updates[i], state.sum_of_squares[i], hp.power, hp.eps))

(* C12, amended: precondition_by_rss.update emits, per element,            *)
(* g / (sum_of_squares + eps)**power with the sum_of_squares it returns:   *)
(* eps is added to the accumulator before the power is taken.              *)
C12_RssAddsEpsBeforeThePower ==
  tname = "precondition_by_rss" /\ Updated =>
    \A i \in 1..Prod(shape) :
      SameValue(out[i], Quot(last.updates[i], RAdd(state.sum_of_squares[i], hp.eps),
                             hp.power, Zero))

C12_Witness ==
  /\ tname = "precondition_by_rss"
  /\ Updated
  /\ hp.power = Half
  /\ last.updates[1] = R(2)
  /\ state.sum_of_squares[1] = R(4)
  /\ out[1] = Quot(R(2), Q(33, 8), Half, Zero)
  /\ ~SameValue(out[1], Quot(R(2), R(4), Half, Q(1, 8)))

(* C13: transformation_registry is the merge of the four category tables,  *)
(* whose key sets are pairwise disjoint: its key set is the union of their *)
(* key sets, every name maps to the constructor it has in its own table,   *)
(* and a lookup of a name outside the union fails.                         *)
CategoryTables ==
  <<_composites, _preconditioners, _first_moment_accumulators, _miscellaneous>>
C13_RegistryIsTheDisjointMerge ==
  /\ \A a, b \in 1..4 :
       a # b => DOMAIN CategoryTables[a] \cap DOMAIN CategoryTables[b] = {}
  /\ DOMAIN transformation_registry = UNION {DOMAIN CategoryTables[a] : a \in 1..4}
  /\ \A a \in 1..4 : \A n \in DOMAIN CategoryTables[a] :
       transformation_registry[n] = CategoryTables[a][n]
  /\ (Returned("registry_lookup") =>
        IF \E a \in 1..4 : call.name \in DOMAIN CategoryTables[a]
          THEN LET a == CHOOSE t \in 1..4 : call.name \in DOMAIN CategoryTables[t]
               IN  ret[1] = [raises |-> "none", constructor |-> CategoryTables[a][call.name]]
          ELSE ret[1] = [raises |-> "KeyError"])

C13_Witness ==
  /\ Returned("registry_lookup")
  /\ call.name = "scale_by_rms"
  /\ ret[1] = [raises |-> "none", constructor |-> "precondition_by_rms"]
  /\ registry_lookup("Scale_By_Adam") = [raises |-> "KeyError"]

(* C14 as stated: every constructor stored in transformation_registry can  *)
(* be called with no arguments and then returns a transform.               *)
C14_EveryConstructorNeedsNoArguments ==
  Returned("registry_construct") /\ call.kwargs = {} => ret[1].raises = "none"

(* C14, amended: of the constructors stored in transformation_registry     *)
(* that transform.py defines, all can be called with no arguments and then *)
(* return a transform except scale_by_learning_rate, nesterovpp and        *)
(* precondition_by_layered_adaptive_rms, which have parameters without     *)
(* defaults and raise TypeError unless all of these are passed.            *)
NeedArguments ==
  ("scale_by_learning_rate" :> {"learning_rate"})
    @@ ("nesterovpp" :> {"moment_decay", "update_decay"})
    @@ ("precondition_by_layered_adaptive_rms" :> {"decays", "scales", "decay_distribution"})
C14_AllButThreeNeedNoArguments ==
  Returned("registry_construct") =>
    /\ (call.kwargs = {} =>
          IF call.name \in DOMAIN NeedArguments
            THEN ret[1] = [raises |-> "TypeError"]
            ELSE ret[1] = [raises |-> "none",
                           transform |-> transformation_registry[call.name]])
    /\ (call.name \in DOMAIN NeedArguments /\ ~(NeedArguments[call.name] \subseteq call.kwargs)
          => ret[1] = [raises |-> "TypeError"])
    /\ (call.name \in DOMAIN NeedArguments /\ NeedArguments[call.name] = call.kwargs
          => ret[1].raises = "none")

C14_Witness ==
  /\ Returned("registry_construct")
  /\ call.name = "nesterovpp"
  /\ call.kwargs = {}
  /\ ret[1] = [raises |-> "TypeError"]

(* The mean of the squares of an array of rationals, and rms(a) <= t for   *)
(* t > 0 as a comparison of squares; an array with a NaN, an infinity or   *)
(* an entry whose square overflows has no rms that is at most t.           *)
AllRational(a) == \A i \in 1..Len(a) : IsRational(a[i])
RECURSIVE SumOfSquares(_)
SumOfSquares(a) ==
  IF a = <<>> THEN Zero ELSE RAdd(RMul(Head(a), Head(a)), SumOfSquares(Tail(a)))
MeanOfSquares(a) == RDiv(SumOfSquares(a), R(Len(a)))
RmsAtMost(a, t) == AllRational(a) /\ RLe(MeanOfSquares(a), RMul(t, t))

(* C15 as stated: for any update array (and a positive clip_threshold) the *)
(* rms of what _clip_update returns is at most clip_threshold, and when    *)
(* the rms of the input is at most clip_threshold the output is the input. *)
C15_ClipBoundsTheRmsOfAnyArray ==
  Returned("clip_updates") /\ RLt(Zero, call.h.clip_threshold) =>
    /\ RmsAtMost(ret[1].updates, call.h.clip_threshold)
    /\ (RmsAtMost(call.updates, call.h.clip_threshold) => ret[1].updates = call.updates)

(* C15, amended: for clip_threshold > 0, _clip_update divides the update   *)
(* by max(1, rms/clip_threshold), the rms replaced by 1.0 when it is NaN   *)
(* or infinite.  For an update whose rms is finite (no NaN or infinite     *)
(* entry, no overflow in the squares) the output is the input when         *)
(* rms(input) <= clip_threshold, and otherwise the input scaled down to    *)
(* rms exactly clip_threshold.  For an update whose rms is not finite the  *)
(* output is the input divided by max(1, 1/clip_threshold): its NaN and    *)
(* infinite entries stay and its rms is not bounded.  clip_updates returns *)
(* the state it was given.                                                 *)
DividedBy(x, d) ==
  IF IsRational(x) THEN RDiv(x, d)
  ELSE IF IsBig(x) THEN Big(RDiv(<<x[1], x[2]>>, d))
  ELSE x
C15_ClipBoundsAFiniteRms ==
  Returned("clip_updates") /\ RLt(Zero, call.h.clip_threshold) =>
    LET u == call.updates
        o == ret[1].updates
        t == call.h.clip_threshold
    IN  /\ ret[1].state = call.state
        /\ Len(o) = Len(u)
        /\ IF AllRational(u)
             THEN IF RmsAtMost(u, t) THEN o = u
                  ELSE /\ AllRational(o)
                       /\ MeanOfSquares(o) = RMul(t, t)
                       /\ \A i, j \in 1..Len(u) :
                            /\ RMul(o[i], u[j]) = RMul(o[j], u[i])
                            /\ SignOf(o[i]) = SignOf(u[i])
                            /\ RLe(RMul(o[i], o[i]), RMul(u[i], u[i]))
             ELSE /\ \A i \in 1..Len(u) : o[i] = DividedBy(u[i], RMax(One, RDiv(One, t)))
                  /\ ~RmsAtMost(o, t)

C15_Witness ==
  /\ Returned("clip_updates")
  /\ call.h.clip_threshold = Half
  /\ call.updates = <<NaN, R(-4), R(-4), R(-4)>>
  /\ ret[1].updates = <<NaN, R(-2), R(-2), R(-2)>>

(* C16: sanitize_values(replacement).update replaces every NaN, +Infinity  *)
(* and -Infinity entry of updates with replacement and leaves every finite *)
(* entry unchanged, so that, replacement being a finite number, the output *)
(* contains no NaN and no infinity; it returns the state it was given.     *)
C16_SanitizeReplacesNonFinite ==
  Returned("sanitize_values") =>
    /\ ret[1].state = call.state
    /\ Len(ret[1].updates) = Len(call.updates)
    /\ \A i \in 1..Len(call.updates) :
         /\ (call.updates[i] \in {NaN, PosInf, NegInf}
               => ret[1].updates[i] = call.h.replacement)
         /\ (call.updates[i] \notin {NaN, PosInf, NegInf}
               => ret[1].updates[i] = call.updates[i])
         /\ (call.h.replacement \notin {NaN, PosInf, NegInf}
               => ret[1].updates[i] \notin {NaN, PosInf, NegInf})

C16_Witness ==
  /\ Returned("sanitize_values")
  /\ call.h.replacement = One
  /\ call.updates = <<NegInf, R(2)>>
  /\ call.state # None
  /\ ret[1] = [updates |-> <<One, R(2)>>, state |-> call.state]

(* C17: scale_by_adam.update returns mu = (1 - b1) * g + b1 * mu and       *)
(* nu = (1 - b2) * g * g + b2 * nu; with debias it divides them by         *)
(* 1 - b1^count and 1 - b2^count, count being the incremented count, and   *)
(* emits mu_hat / (sqrt(nu_hat + eps_root) + eps); so the first update     *)
(* after init has mu_hat = g and nu_hat = g * g and emits                  *)
(* g / (sqrt(g * g + eps_root) + eps).  (Stated for the positive counts:   *)
(* b^count is exact for the small ones and 0 in float32 for a count near   *)
(* the int32 maximum.)                                                     *)
PowerOfDecay(b, c) == IF c > 1000 THEN Zero ELSE RPow(b, c)
C17_AdamMomentsAndFirstStep ==
  tname = "scale_by_adam" /\ Updated /\ state.count > 0 =>
    \A i \in 1..Prod(shape) :
      LET g == last.updates[i]
          mu == RAdd(RMul(RSub(One, hp.b1), g), RMul(hp.b1, last.state.mu[i]))
          nu == RAdd(RMul(RSub(One, hp.b2), RMul(g, g)), RMul(hp.b2, last.state.nu[i]))
          mu_hat == IF hp.debias
                      THEN RDiv(mu, RSub(One, PowerOfDecay(hp.b1, state.count))) ELSE mu
          nu_hat == IF hp.debias
                      THEN RDiv(nu, RSub(One, PowerOfDecay(hp.b2, state.count))) ELSE nu
      IN  /\ state.mu[i] = mu
          /\ state.nu[i] = nu
          /\ out[i] = Quot(mu_hat, RAdd(nu_hat, hp.eps_root), hp.power, hp.eps)
          /\ (hp.debias /\ steps = 1 /\ start = 0 =>
                /\ state.count = 1
                /\ out[i] = Quot(g, RAdd(RMul(g, g), hp.eps_root), hp.power, hp.eps))

(* The number a term with power 1/2 and a radicand that is the square of a *)
(* rational denotes.                                                       *)
ValueOf(q) == RDiv(q.num, RAdd(FSqrt(q.rad), q.eps))
C17_Witness ==
  /\ tname = "scale_by_adam"
  /\ hp.debias
  /\ steps = 1
  /\ start = 0
  /\ last.updates[1] = R(-1)
  /\ state.mu[1] = Q(-1, 2)
  /\ state.nu[1] = Quarter
  /\ out[1] = Quot(R(-1), One, Half, Eps8)
  /\ ValueOf(out[1]) = Q(-100000000, 100000001)

(* C18: run on the same gradients, scale_by_nadam and scale_by_adam have   *)
(* the same state (count, mu, nu) after init and after every update; the   *)
(* update NAdam emits has Adam's denominator and the numerator             *)
(* bias_correction((1 - b1) * g + b1 * mu_new), mu_new being the first     *)
(* moment just stored (no bias correction when debias is off).             *)
RECURSIVE AdamStateAfter(_)
AdamStateAfter(history) ==
  IF history = <<>>
    THEN AfterZeroGradientUpdates(
           scale_by_adam_init_fn(hp, [shape |-> shape, data |-> zeros_like(shape)]), start)
    ELSE scale_by_adam_update_fn(hp, history[Len(history)],
                                 AdamStateAfter(SubSeq(history, 1, Len(history) - 1))).state
C18_NadamKeepsAdamsState ==
  tname = "scale_by_nadam" =>
    /\ state = AdamStateAfter(seen)
    /\ (Updated =>
          LET adam == scale_by_adam_update_fn(hp, last.updates, last.state)
              lookahead == [i \in 1..Prod(shape) |->
                              RAdd(RMul(RSub(One, hp.b1), last.updates[i]),
                                   RMul(hp.b1, state.mu[i]))]
              mu_hat == IF hp.debias THEN _bias_correction(lookahead, hp.b1, state.count)
                        ELSE lookahead
          IN  \A i \in 1..Prod(shape) :
                /\ out[i].num = mu_hat[i]
                /\ out[i].rad = adam.updates[i].rad
                /\ out[i].power = adam.updates[i].power
                /\ out[i].eps = adam.updates[i].eps)

C18_Witness ==
  /\ tname = "scale_by_nadam"
  /\ steps = MaxSteps
  /\ start = 0
  /\ hp.debias
  /\ state = AdamStateAfter(seen)
  /\ state.mu[1] # Zero
  /\ out[1].num # scale_by_adam_update_fn(hp, last.updates, last.state).updates[1].num

(* C19: dot_interact returns, for n stacked features, the n(n+1)/2 inner   *)
(* products of the pairs i <= j, the diagonal included, when keep_diags is *)
(* true, and only the n(n-1)/2 inner products of the off-diagonal pairs,   *)
(* no product of a feature with itself, when keep_diags is false.          *)
C19_KeepDiagsSelectsTheDiagonal ==
  Returned("dot_interact") =>
    LET n == Len(call.concat_features[1])
        x == xactions_of(call.concat_features)
        pairs == IF call.keep_diags
                   THEN SelectSeq(AllPairs(n), LAMBDA p : p[1] <= p[2])
                   ELSE SelectSeq(AllPairs(n), LAMBDA p : p[2] < p[1])
    IN  /\ Len(ret[1]) = Len(call.concat_features)
        /\ \A b \in 1..Len(ret[1]) :
             /\ Len(ret[1][b]) = (IF call.keep_diags THEN n * (n + 1) ELSE n * (n - 1)) \div 2
             /\ ret[1][b] = [k \in 1..Len(pairs) |-> x[b][pairs[k][1] + 1][pairs[k][2] + 1]]

(* C20: in precondition_by_layered_adaptive_rms the second moment is       *)
(* updated with one_minus_beta = 1 - beta where beta < 1 and 1 where       *)
(* beta >= 1, a strictly positive factor: nu = one_minus_beta * g * g +    *)
(* beta * nu per element.  Where beta = 1, nu accumulates g * g with no    *)
(* decay: it never decreases and is the sum of the squared gradients.      *)
C20_OneMinusBetaIsClamped ==
  tname = "precondition_by_layered_adaptive_rms" =>
    LET beta == Broadcast(
                  _generate_per_parameter_array(hp, hp.decays, [shape |-> shape]), shape)
    IN  \A i \in 1..Prod(shape) :
          LET one_minus_beta == IF RLt(beta[i], One) THEN RSub(One, beta[i]) ELSE One
          IN  /\ RLt(Zero, one_minus_beta)
              /\ (Updated =>
                    state.nu[i] = RAdd(RMul(one_minus_beta,
                                            RMul(last.updates[i], last.updates[i])),
                                       RMul(beta[i], last.state.nu[i])))
              /\ (beta[i] = One =>
                    /\ state.nu[i] = SumOfSquaresAt(seen, i)
                    /\ (Updated => RLe(last.state.nu[i], state.nu[i])))

C20_Witness ==
  /\ tname = "precondition_by_layered_adaptive_rms"
  /\ hp.decays = <<Q(3, 2), One>>
  /\ steps = MaxSteps
  /\ state.nu[1] = R(19)
  /\ state.nu[2] = R(12)

(* C21: DLRM.__call__(x, train) returns logits for every configuration;    *)
(* with dropout_rate > 0 and at least two top MLP layers it applies        *)
(* dropout exactly once, after the second-to-last top layer, with          *)
(* deterministic = not train, and otherwise applies no dropout.            *)
C21_CallCompletesWithDropout ==
  Returned("DLRM.__call__") =>
    LET n == Len(call.module.mlp_top_dims)
    IN  /\ ret[1].raises = "none"
        /\ ret[1].dropouts =
             IF RLt(Zero, call.module.dropout_rate) /\ n >= 2
               THEN <<[after_layer |-> n - 2, rate |-> call.module.dropout_rate,
                       deterministic |-> ~call.train]>>
               ELSE <<>>

(* C22: in precondition_by_yogi with initial_accumulator_value > 0 and     *)
(* 0 <= b2 < 1 every element of nu is strictly positive after init and     *)
(* after every update: an update returns                                   *)
(* nu - (1 - b2) * sign(nu - g * g) * g * g, which is lower than nu only   *)
(* when nu > g * g, and then by less than nu, and is nu when nu = g * g.   *)
C22_YogiNuStaysPositive ==
  (/\ tname = "precondition_by_yogi"
   /\ RLt(Zero, hp.initial_accumulator_value)
   /\ RLe(Zero, hp.b2) /\ RLt(hp.b2, One))
  => \A i \in 1..Prod(shape) :
       /\ RLt(Zero, state.nu[i])
       /\ (Updated =>
             LET old == last.state.nu[i]
                 gg == RMul(last.updates[i], last.updates[i])
                 step == RMul(RSub(One, hp.b2), gg)
             IN  /\ state.nu[i] = (IF RLt(gg, old) THEN RSub(old, step)
                                   ELSE IF RLt(old, gg) THEN RAdd(old, step)
                                   ELSE old)
                 /\ (RLt(state.nu[i], old) =>
                       RLt(gg, old) /\ RLt(RSub(old, state.nu[i]), old))
                 /\ (old = gg => state.nu[i] = old))

C22_Witness ==
  /\ tname = "precondition_by_yogi"
  /\ hp.b2 = Zero
  /\ Updated
  /\ last.state.nu[1] = R(5)
  /\ last.updates[1] = R(2)
  /\ state.nu[1] = One
  /\ last.state.nu[2] = One
  /\ last.updates[2] = Zero
  /\ state.nu[2] = One

(* C23: after any sequence of updates from init, the count a debiasing     *)
(* transform (precondition_by_rms, precondition_by_yogi, scale_by_adam,    *)
(* scale_by_nadam with debias on; bias_correction) passes to               *)
(* _bias_correction, the count it returns, is never 0 and never negative,  *)
(* so that the divisor 1 - decay**count is not zero; also after the        *)
(* counter has reached the int32 maximum.                                  *)
Debiases ==
  \/ tname = "bias_correction"
  \/ /\ tname \in {"precondition_by_rms", "precondition_by_yogi",
                    "scale_by_adam", "scale_by_nadam"}
     /\ hp.debias
DebiasDecays ==
  IF tname \in {"bias_correction", "precondition_by_rms"} THEN {hp.decay}
  ELSE IF tname = "precondition_by_yogi" THEN {hp.b2}
  ELSE {hp.b1, hp.b2}
C23_BiasCorrectionCountIsPositive ==
  Debiases /\ Updated =>
    /\ state.count > 0
    /\ \A decay \in DebiasDecays : RSub(One, DecayPow(decay, state.count)) # Zero

(* C24: extract_field(state, field_name) returns a value that is not None  *)
(* whenever some named tuple reachable from state through tuple elements   *)
(* has the field with a value that is not None; a named tuple holding the  *)
(* field with value None hides neither its own elements nor its later      *)
(* siblings.                                                               *)
RECURSIVE SomeFieldNotNone(_, _)
SomeFieldNotNone(v, field_name) ==
  /\ IsTuple(v)
  /\ \/ HasField(v, field_name) /\ getattr(v, field_name) # NoneV
     \/ \E i \in 1..Len(v.elems) : SomeFieldNotNone(v.elems[i], field_name)
C24_NonNoneFieldIsAlwaysFound ==
  Returned("extract_field") /\ SomeFieldNotNone(call.state, call.field_name)
    => ret[1] # NoneV

(* C24, as the code has it: the search stops at a named tuple that has the *)
(* field, whatever the value.  extract_field returns a value that is not   *)
(* None exactly when a non-None field is reachable through tuple elements  *)
(* without entering a named tuple that has the field itself: a named tuple *)
(* holding the field with value None hides the fields of the same name in  *)
(* its own elements, and does not hide those of its later siblings.        *)
RECURSIVE Visible(_, _)
Visible(v, field_name) ==
  /\ IsTuple(v)
  /\ IF HasField(v, field_name) THEN getattr(v, field_name) # NoneV
     ELSE \E i \in 1..Len(v.elems) : Visible(v.elems[i], field_name)
C24_NoneFieldHidesItsOwnElementsOnly ==
  Returned("extract_field") =>
    /\ ret[1] # NoneV <=> Visible(call.state, call.field_name)
    /\ \A i \in 1..Len(call.state.elems) :
         (~HasField(call.state, call.field_name) /\ Visible(call.state.elems[i], call.field_name))
           => ret[1] # NoneV

C24_Witness ==
  /\ Returned("extract_field")
  /\ call.field_name = "nu"
  /\ call.state = Tuple(<<NamedTuple(<<"nu", "x">>, <<NoneV, Leaf(5)>>),
                          NamedTuple(<<"x", "nu">>, <<NoneV, Leaf(5)>>)>>)
  /\ ret[1] = Leaf(5)

(* C25: nesterovpp with moment_decay = update_decay = d keeps, after every *)
(* step, the trace nesterov(d) keeps and emits the updates nesterov(d)     *)
(* emits when both start from the zero trace and are given the same        *)
(* gradients: trace = g + d * trace, updates = g + d * new_trace.  With    *)
(* any decays the trace is the one the gradients and moment_decay alone    *)
(* determine, and update_decay enters the emitted updates only.            *)
RECURSIVE NesterovAfter(_, _)
NesterovAfter(d, history) ==
  IF history = <<>>
    THEN [updates |-> None,
          state |-> nesterov_init_fn([decay |-> d], [shape |-> shape, data |-> zeros_like(shape)])]
    ELSE nesterov_update_fn([decay |-> d], history[Len(history)],
                            NesterovAfter(d, SubSeq(history, 1, Len(history) - 1)).state)
C25_NesterovppWithOneDecayIsNesterov ==
  tname = "nesterovpp" =>
    /\ state = NesterovAfter(hp.moment_decay, seen).state
    /\ (Updated =>
          /\ out = [i \in 1..Prod(shape) |->
                      RAdd(last.updates[i], RMul(hp.update_decay, state.trace[i]))]
          /\ state.trace = [i \in 1..Prod(shape) |->
                              RAdd(last.updates[i], RMul(hp.moment_decay, last.state.trace[i]))]
          /\ (hp.moment_decay = hp.update_decay
                => out = NesterovAfter(hp.moment_decay, seen).updates))

C25_Witness ==
  /\ tname = "nesterovpp"
  /\ hp.moment_decay = hp.update_decay
  /\ steps = 2
  /\ ~AllZero(last.state.trace)
  /\ ~AllZero(last.updates)
  /\ out # last.updates
  /\ out # state.trace

====
